---------------------------- MODULE Spec2Model ----------------------------
(***************************************************************************)
(* The IR layer of devito: the interval/box algebra (ir/support/domain.py), *)
(* the clusterizer (ir/clusters/algorithms.py: clusterize, groupby,         *)
(* is_local, bump_and_contract) and the IET builder (ir/iet/utils.py:       *)
(* build_iet), each as a state machine with its own specification.          *)
(***************************************************************************)
EXTENDS Integers, Sequences, FiniteSets, TLC

(***************************************************************************)
(* Bounds of the model.                                                     *)
(***************************************************************************)
\* interval bounds of the algebra's inputs are drawn from -MaxBound..MaxBound
MaxBound == 1
\* number of equations handed to clusterize
NumEqs == 3
\* number of clusters handed to groupby
NumClusters == 3
\* number of clusters handed to build_iet
NumIetClusters == 3

Max(i, j) == IF i >= j THEN i ELSE j
Min(i, j) == IF i <= j THEN i ELSE j
Abs(i) == IF i >= 0 THEN i ELSE -i

RECURSIVE SeqToSet(_)
SeqToSet(s) == IF s = <<>> THEN {} ELSE {Head(s)} \cup SeqToSet(Tail(s))

(***************************************************************************)
(* Interval algebra (domain.py).  An interval is a record; a NullInterval   *)
(* carries only its dimension (its bounds are fixed to 0 so that equality   *)
(* is type(self) == type(o) and self.dim == o.dim).                         *)
(***************************************************************************)
NullInterval(d) == [dim |-> d, null |-> TRUE, lower |-> 0, upper |-> 0]
Interval(d, lo, up) == [dim |-> d, null |-> FALSE, lower |-> lo, upper |-> up]

\* Interval.__init__: self.min_extent = abs(upper - lower)
min_extent(i) == Abs(i.upper - i.lower)

\* Interval.overlap / NullInterval.overlap.  o.min_extent of a NullInterval
\* raises AttributeError, which overlap turns into False.
Interval_overlap(self, o) ==
    IF self.null THEN FALSE
    ELSE IF self.dim # o.dim THEN FALSE
    ELSE IF o.null THEN FALSE
    ELSE LET m == Max(min_extent(self), min_extent(o))
         IN  \/ (self.lower <= o.lower /\ o.lower <= self.lower + m)
             \/ (self.lower >= o.lower /\ self.lower <= o.lower + m)

\* an intersection that keeps the caller's lower bound
Interval_intersection_ownlower(self, o) ==
    IF self.null THEN NullInterval(self.dim)
    ELSE IF Interval_overlap(self, o)
         THEN Interval(self.dim, self.lower, Min(self.upper, o.upper))
         ELSE NullInterval(self.dim)

\* Interval.intersection; a NullInterval inherits AbstractInterval.intersection,
\* which returns self._rebuild().
Interval_intersection(self, o) ==
    IF self.null THEN NullInterval(self.dim)
    ELSE IF Interval_overlap(self, o)
         THEN Interval(self.dim, Max(self.lower, o.lower), Min(self.upper, o.upper))
         ELSE NullInterval(self.dim)

\* what union returns: an interval, or the Box of the two operands
AsInterval(i) == [is_box |-> FALSE, intervals |-> {i}]
AsBox(intervals) == [is_box |-> TRUE, intervals |-> intervals]

\* Interval.union and NullInterval.union
Interval_union(self, o) ==
    IF self.null
    THEN IF self.dim = o.dim THEN AsInterval(o) ELSE AsBox({self, o})
    ELSE IF Interval_overlap(self, o)
         THEN AsInterval(Interval(self.dim, Min(self.lower, o.lower),
                                  Max(self.upper, o.upper)))
         ELSE IF o.null /\ self.dim = o.dim THEN AsInterval(self)
         ELSE AsBox({self, o})

\* Interval.__init__: self.extent = dim.symbolic_size + self.min_extent; the
\* symbolic size is kept as the dimension it belongs to
extent(i) == [size |-> i.dim, plus |-> min_extent(i)]

\* Interval.negate; a NullInterval inherits AbstractInterval.negate.
Interval_negate(self) ==
    IF self.null THEN NullInterval(self.dim)
    ELSE Interval(self.dim, -self.lower, -self.upper)

\* AbstractInterval.op(intervals, 'intersection'): a left fold.
RECURSIVE op_intersection(_, _)
op_intersection(partial, rest) ==
    IF rest = <<>> THEN partial
    ELSE op_intersection(Interval_intersection(partial, Head(rest)), Tail(rest))

(***************************************************************************)
(* Box (domain.py).  Box.__init__ keeps set(intervals) and Box.__eq__       *)
(* compares sets, so a Box is a set of intervals.  The order a Schedule     *)
(* gives its intervals plays no part in intersection or equality.           *)
(***************************************************************************)
BoxDims(box) == {i.dim : i \in box}

\* equality by identity, as without Box.__eq__: a box just built equals no other
Box_eq_identity(self, o) == FALSE

\* Box.__eq__
Box_eq(self, o) == self = o

\* the intervals of dimension d in the boxes of the sequence, in order
RECURSIVE Collect(_, _)
Collect(d, boxes) ==
    IF boxes = <<>> THEN <<>>
    ELSE LET here == {i \in Head(boxes) : i.dim = d}
         IN  (IF here = {} THEN <<>> ELSE <<CHOOSE i \in here : TRUE>>)
             \o Collect(d, Tail(boxes))

\* an intersection over the dimensions of all the boxes: a dimension that
\* only an argument has enters the result with the argument's intervals
Box_intersection_alldims(self, boxes) ==
    {op_intersection(i, Collect(i.dim, boxes)) : i \in self}
        \cup {LET c == Collect(d, boxes) IN op_intersection(Head(c), Tail(c)) :
                 d \in (UNION {BoxDims(boxes[k]) : k \in 1..Len(boxes)}) \ BoxDims(self)}

\* a symmetric intersection: only the dimensions every box has survive
Box_intersection_common(self, boxes) ==
    {op_intersection(i, Collect(i.dim, boxes)) :
        i \in {j \in self : \A k \in 1..Len(boxes) : j.dim \in BoxDims(boxes[k])}}

\* Box.intersection(*boxes): mapper starts from self's intervals; an interval
\* of an argument whose dimension self lacks is appended to a throw-away list.
Box_intersection(self, boxes) ==
    {op_intersection(i, Collect(i.dim, boxes)) : i \in self}

\* Interval.subtract; a NullInterval inherits AbstractInterval.subtract
Interval_subtract(self, o) ==
    IF self.null THEN NullInterval(self.dim)
    ELSE IF self.dim # o.dim \/ o.null THEN self
    ELSE Interval(self.dim, self.lower - o.lower, self.upper - o.upper)

\* Box.subtract(o): one interval per interval of o whose dimension self has
Box_subtract(self, o) ==
    {Interval_subtract(CHOOSE j \in self : j.dim = i.dim, i) :
        i \in {k \in o : k.dim \in BoxDims(self)}}

\* Box.negate
Box_negate(self) == {Interval_negate(i) : i \in self}

VARIABLES
    \* interval algebra, applied to drawn operands
    argA, argB, algRes,
    \* clusterize: the dependence oracle, Eq.dspace, mapper[e].ispace, queue,
    \* and the number of turns the while loop has taken
    hasDep, dspace, ispace, queue, turns,
    \* groupby: the argument, its unfrozen copy, processed, processed.atomics,
    \* the cluster c of the outer loop, the candidate of the inner loop, the
    \* output cluster each input cluster went to, the locals of the last turn
    gInput, gClusters, processed, atomics, gc, gj, home, last,
    \* build_iet: the clusters argument, the index of the cluster the for loop
    \* is at, the nodes built so far, processed, schedule, the local dtype,
    \* and the locals of the last pass of the for loop
    iClusters, ik, nodes, iProcessed, schedule, dtype, built,
    \* box algebra: the calling box, the argument boxes, the result
    bSelf, bArgs, bRes,
    \* Eq.__new__: the indices of the equation's accesses, the data space
    eIndices, eDspace,
    \* filter_iterations: key(i) per item of the tree, stop, the result
    fTree, fStop, fRes

varsAlg == <<argA, argB, algRes>>
varsClz == <<hasDep, dspace, ispace, queue, turns>>
varsGb == <<gInput, gClusters, processed, atomics, gc, gj, home, last>>
varsIet == <<iClusters, ik, nodes, iProcessed, schedule, dtype, built>>
varsBox == <<bSelf, bArgs, bRes>>
varsEq == <<eIndices, eDspace>>
varsFlt == <<fTree, fStop, fRes>>
vars == <<varsAlg, varsClz, varsGb, varsIet, varsBox, varsEq, varsFlt>>

Dims == {"x", "y"}

(***************************************************************************)
(* Specification of the interval algebra: operands are drawn, the           *)
(* operation is applied in both orders.                                     *)
(***************************************************************************)
Bounds == (-MaxBound)..MaxBound
Intervals == {NullInterval(d) : d \in Dims}
             \cup {Interval(d, lo, up) : d \in Dims, lo \in Bounds, up \in Bounds}

NoResult == [op |-> "none", ab |-> NullInterval("x"), ba |-> NullInterval("x")]

IdleAlg == argA = NullInterval("x") /\ argB = NullInterval("x") /\ algRes = NoResult
IdleClz == hasDep = {} /\ dspace = <<>> /\ ispace = <<>> /\ queue = <<>> /\ turns = 0
NoTurn == [c |-> 0, cand |-> 0, fused |-> FALSE, anti |-> {}, targets |-> {},
           contracted |-> {}]
IdleGb ==
    /\ gInput = <<>> /\ gClusters = <<>> /\ processed = <<>> /\ atomics = <<>>
    /\ gc = 0 /\ gj = 0 /\ home = <<>> /\ last = NoTurn

NoBuild == [cl |-> 0, index |-> 0, root |-> 0, body |-> 0, nodes |-> 0,
            fragments |-> 0, schedule |-> <<>>]
IdleIet ==
    /\ iClusters = <<>> /\ ik = 0 /\ nodes = <<>> /\ iProcessed = <<>>
    /\ schedule = <<>> /\ dtype = "float32" /\ built = NoBuild

NoBoxResult == [op |-> "none", box |-> {}]
IdleBox == bSelf = {} /\ bArgs = <<>> /\ bRes = NoBoxResult
IdleEq == eIndices = {} /\ eDspace = [done |-> FALSE, box |-> {}]
IdleFlt == fTree = <<>> /\ fStop = "none" /\ fRes = [done |-> FALSE, filtered |-> <<>>]

ApplyIntersection ==
    /\ algRes.op = "none"
    /\ algRes' = [op |-> "intersection",
                  ab |-> Interval_intersection(argA, argB),
                  ba |-> Interval_intersection(argB, argA)]
    /\ UNCHANGED <<argA, argB>>
    /\ UNCHANGED <<varsClz, varsGb, varsIet, varsBox, varsEq, varsFlt>>

ApplyUnion ==
    /\ algRes.op = "none"
    /\ algRes' = [op |-> "union",
                  ab |-> Interval_union(argA, argB),
                  ba |-> Interval_union(argB, argA)]
    /\ UNCHANGED <<argA, argB>>
    /\ UNCHANGED <<varsClz, varsGb, varsIet, varsBox, varsEq, varsFlt>>

InitAlg ==
    /\ argA \in Intervals
    /\ argB \in Intervals
    /\ algRes = NoResult
    /\ IdleClz /\ IdleGb /\ IdleIet /\ IdleBox /\ IdleEq /\ IdleFlt

NextAlg == ApplyIntersection \/ ApplyUnion

SpecAlgebra == InitAlg /\ [][NextAlg]_vars

(***************************************************************************)
(* clusterize, the space-propagation loop (algorithms.py:188-209).          *)
(* Equations are 1..NumEqs in program order.  Scope([e1, e2]).has_dep is an *)
(* oracle: any set of pairs <<i, j>>, i < j.                                *)
(***************************************************************************)
Eqs == 1..NumEqs
EqPairs == {p \in Eqs \X Eqs : p[1] < p[2]}

\* offsets a stencil holds along x; Eq.__new__ builds
\* Interval(i, min(stencil.get(i)), max(stencil.get(i))), so lower <= upper
Offsets == {0, 1}
DataIntervals ==
    {Interval("x", p[1], p[2]) : p \in {q \in Offsets \X Offsets : q[1] <= q[2]}}
\* an equation accesses x, and y or not
DataSpaces == {{i} \cup yy : i \in DataIntervals, yy \in {{}, {Interval("y", 0, 0)}}}

RECURSIVE SelectSeq2(_, _, _)
\* [i for i in lo..hi if keep[i]] as a sequence
SelectSeq2(lo, hi, keep) ==
    IF lo > hi THEN <<>>
    ELSE (IF lo \in keep THEN <<lo>> ELSE <<>>) \o SelectSeq2(lo + 1, hi, keep)

\* mapper[e1].trace: the earlier equations with a dependence, e1, the later ones
trace(e1) ==
    SelectSeq2(1, e1 - 1, {e2 \in Eqs : <<e2, e1>> \in hasDep})
    \o <<e1>>
    \o SelectSeq2(e1 + 1, NumEqs, {e2 \in Eqs : <<e1, e2>> \in hasDep})

\* ispaces = [mapper[i].ispace for i in mapper[target].trace]
ispaces(target) == [k \in 1..Len(trace(target)) |-> ispace[trace(target)[k]]]

\* coerced_ispace = mapper[target].ispace.intersection(*ispaces)
coerced_ispace(target) == Box_intersection(ispace[target], ispaces(target))

\* an update that re-enqueues nothing
extend_none(q, tr) == q

\* queue.extend([i for i in mapper[target].trace if i not in queue])
RECURSIVE extend(_, _)
extend(q, tr) ==
    IF tr = <<>> THEN q
    ELSE extend(IF Head(tr) \in SeqToSet(q) THEN q ELSE Append(q, Head(tr)),
                Tail(tr))

\* one turn of the loop in which the intersection changes the space
ClzUpdate ==
    /\ queue # <<>>
    /\ LET target == Head(queue) IN
        /\ ~Box_eq(coerced_ispace(target), ispace[target])
        /\ ispace' = [ispace EXCEPT ![target] = coerced_ispace(target)]
        /\ queue' = extend(Tail(queue), trace(target))
    /\ turns' = turns + 1
    /\ UNCHANGED <<hasDep, dspace>>
    /\ UNCHANGED <<varsAlg, varsGb, varsIet, varsBox, varsEq, varsFlt>>

\* one turn of the loop in which the intersection changes nothing
ClzKeep ==
    /\ queue # <<>>
    /\ LET target == Head(queue) IN
        /\ Box_eq(coerced_ispace(target), ispace[target])
        /\ queue' = Tail(queue)
    /\ turns' = turns + 1
    /\ UNCHANGED <<hasDep, dspace, ispace>>
    /\ UNCHANGED <<varsAlg, varsGb, varsIet, varsBox, varsEq, varsFlt>>

\* the state when the while loop is entered: ispace = Schedule(e1.dspace.negate())
InitClz ==
    /\ hasDep \in SUBSET EqPairs
    /\ dspace \in [Eqs -> DataSpaces]
    /\ ispace = [e \in Eqs |-> Box_negate(dspace[e])]
    /\ queue = [k \in Eqs |-> k]
    /\ turns = 0
    /\ IdleAlg /\ IdleGb /\ IdleIet /\ IdleBox /\ IdleEq /\ IdleFlt

NextClz == ClzUpdate \/ ClzKeep

SpecClusterize == InitClz /\ [][NextClz]_vars

(***************************************************************************)
(* Claims about the space-propagation loop.                                 *)
(***************************************************************************)
\* An interval of an equation changes by raising its lower bound, lowering its
\* upper bound or becoming null, and these are bounded by the offsets present:
\* the updates, and with them the turns of the loop, are bounded.
MaxUpdates == NumEqs * Cardinality(Dims) * (2 * (Cardinality(Offsets) - 1) + 1)
TurnBound == NumEqs * (1 + MaxUpdates)

\* the iteration range start+lower .. end+upper of i2 lies within that of i1
Within(i2, i1) ==
    /\ i2.dim = i1.dim
    /\ \/ i2.null
       \/ (~i1.null /\ i2.lower >= i1.lower /\ i2.upper <= i1.upper)

NonExpanding ==
    \A e \in DOMAIN ispace :
        /\ BoxDims(ispace'[e]) = BoxDims(ispace[e])
        /\ \A i1 \in ispace[e], i2 \in ispace'[e] : i1.dim = i2.dim => Within(i2, i1)

\* C5: the work-queue loop terminates for every list of equations and every
\* dependence relation: no turn expands an interval, and the number of turns
\* taken before the queue is empty is bounded.
C5_LoopTerminates ==
    /\ [](turns <= TurnBound)
    /\ [][NonExpanding]_vars

\* the loop has ended after re-enqueueing equations of a cyclic trace
C5_Witness == queue = <<>> /\ turns > NumEqs /\ hasDep # {}

\* C6 as stated: after the fixpoint, for every equation A and every B in A's
\* trace, every dimension of B's iteration space is a dimension of A's.
C6_NoMissingDimension ==
    queue = <<>> =>
        \A A \in DOMAIN ispace : \A B \in SeqToSet(trace(A)) :
            BoxDims(ispace[B]) \subseteq BoxDims(ispace[A])

\* C6 amended: after the fixpoint every equation's iteration space has exactly
\* the dimensions of the equation's own data space; a dimension that only a
\* member of its trace has is not added.
C6_OwnDimensionsKept ==
    queue = <<>> =>
        \A A \in DOMAIN ispace : BoxDims(ispace[A]) = BoxDims(dspace[A])

\* the loop has ended, the space of A was updated, and a member of A's trace
\* has a dimension that A lacks
C6_Witness ==
    /\ queue = <<>> /\ ispace # <<>>
    /\ \E A \in DOMAIN ispace :
          /\ ispace[A] # Box_negate(dspace[A])
          /\ \E B \in SeqToSet(trace(A)) :
                ~(BoxDims(ispace[B]) \subseteq BoxDims(ispace[A]))

(***************************************************************************)
(* groupby, is_local, bump_and_contract (algorithms.py:12-182).             *)
(*                                                                         *)
(* An access f[x+o] is [f, o]; a scalar has offset 0.  An equation is its   *)
(* left-hand side and the accesses of its right-hand side, in order.       *)
(* Arrays are the temporaries (is_Array); ScalarNames are the Scalars       *)
(* bump_and_contract creates; every other function is persistent.          *)
(* No equation of the model is an increment (equation.py:38 defaults       *)
(* is_Increment to False) or reads what it writes, so d_anti.increment,     *)
(* d_flow.increment and d_flow.inplace() are empty.                         *)
(***************************************************************************)
Arrays == {"r", "q"}
ScalarName(n) == <<"s0", "s1", "s2", "s3", "s4", "s5", "s6", "s7">>[n + 1]
ScalarNames == {ScalarName(n) : n \in 0..7}

Acc(f, o) == [f |-> f, o |-> o]
Eqn(lhs, rhs) == [lhs |-> lhs, rhs |-> rhs]

\* FlowGraph: an OrderedDict keyed by left-hand side; a later equation with
\* the same left-hand side takes the place of the earlier one.
RECURSIVE TraceOf(_)
TraceOf(exprs) ==
    IF exprs = <<>> THEN <<>>
    ELSE LET n == Len(exprs)
             front == TraceOf(SubSeq(exprs, 1, n - 1))
             e == exprs[n]
             hit == {k \in 1..Len(front) : front[k].lhs = e.lhs}
         IN  IF hit = {} THEN Append(front, e)
             ELSE [front EXCEPT ![CHOOSE k \in hit : TRUE] = e]

\* the functions the equations read (FlowGraph.unknown)
unknown(exprs) ==
    UNION {{e.rhs[m].f : m \in 1..Len(e.rhs)} : e \in SeqToSet(exprs)}

\* the functions appearing anywhere in the equations
Functions(exprs) == {e.lhs.f : e \in SeqToSet(exprs)} \cup unknown(exprs)

\* the accesses a sequence holds, once each, in order of appearance
RECURSIVE Distinct(_)
Distinct(accs) ==
    IF accs = <<>> THEN <<>>
    ELSE LET n == Len(accs)
             front == Distinct(SubSeq(accs, 1, n - 1))
         IN  IF accs[n] \in SeqToSet(front) THEN front ELSE Append(front, accs[n])

RECURSIVE AllReads(_)
AllReads(tr) == IF tr = <<>> THEN <<>> ELSE Head(tr).rhs \o AllReads(Tail(tr))

\* sink.tensors[f]: the distinct accesses at which the sink reads f, in order
tensors(tr, f) == SelectSeq(Distinct(AllReads(tr)), LAMBDA a : a.f = f)

(***************************************************************************)
(* Scope(exprs): the dependences among the equations of one sequence, by    *)
(* the classic distance test along x.  A location written at offset w by    *)
(* an earlier equation and read at offset o by a later one is a flow        *)
(* dependence when o <= w (carried by x when o < w) and a carried           *)
(* anti-dependence when o > w; a location read at offset o by an earlier    *)
(* equation and written at offset w by a later one is an anti-dependence    *)
(* when w <= o (carried when w < o) and a carried flow dependence when      *)
(* w > o.                                                                   *)
(***************************************************************************)
Dep(kind, f, carried) == [kind |-> kind, f |-> f, carried |-> carried]

Scope(exprs) ==
    LET n == Len(exprs)
        wr == {Dep(IF exprs[j].rhs[m].o <= exprs[i].lhs.o THEN "flow" ELSE "anti",
                   exprs[i].lhs.f,
                   exprs[j].rhs[m].o # exprs[i].lhs.o) :
                 <<i, j, m>> \in {t \in (1..n) \X (1..n) \X (1..2) :
                                    /\ t[1] < t[2]
                                    /\ t[3] <= Len(exprs[t[2]].rhs)
                                    /\ exprs[t[2]].rhs[t[3]].f = exprs[t[1]].lhs.f}}
        rw == {Dep(IF exprs[j].lhs.o <= exprs[i].rhs[m].o THEN "anti" ELSE "flow",
                   exprs[j].lhs.f,
                   exprs[j].lhs.o # exprs[i].rhs[m].o) :
                 <<i, j, m>> \in {t \in (1..n) \X (1..n) \X (1..2) :
                                    /\ t[1] < t[2]
                                    /\ t[3] <= Len(exprs[t[1]].rhs)
                                    /\ exprs[t[1]].rhs[t[3]].f = exprs[t[2]].lhs.f}}
    IN  wr \cup rw

\* anti = scope.d_anti.carried() - scope.d_anti.increment
d_anti_carried(scope) == {d \in scope : d.kind = "anti" /\ d.carried}
\* flow = scope.d_flow - (scope.d_flow.inplace() + scope.d_flow.increment)
d_flow(scope) == {d \in scope : d.kind = "flow"}
\* scope.d_flow.independent()
d_flow_independent(scope) == {d \in scope : d.kind = "flow" /\ ~d.carried}
\* the dimensions that carry the dependences
cause(deps) == IF \E d \in deps : d.carried THEN {"x"} ELSE {}

(***************************************************************************)
(* is_local(array, source, sink, context): source and sink are positions    *)
(* in context, the whole unfrozen cluster list.                             *)
(***************************************************************************)
\* the loop over source.trace.values(): the value of written_once at its end
RECURSIVE written_once(_, _, _)
written_once(array, tr, sofar) ==
    IF tr = <<>> THEN sofar
    ELSE LET i == Head(tr) IN
         IF array = i.lhs.f
         THEN IF sofar THEN FALSE
              ELSE IF \E m \in 1..Len(i.rhs) :
                         i.rhs[m].f \in Arrays \cup ScalarNames
                   THEN FALSE
                   ELSE written_once(array, Tail(tr), TRUE)
         ELSE written_once(array, Tail(tr), sofar)

\* is_local without its last test: the clusters of the context are not looked at
is_local_nocontext(array, source, sink, context) ==
    /\ array \in Arrays
    /\ written_once(array, TraceOf(context[source].exprs), FALSE)

is_local(array, source, sink, context) ==
    /\ array \in Arrays
    /\ written_once(array, TraceOf(context[source].exprs), FALSE)
    /\ ~\E k \in DOMAIN context :
           k \notin {source, sink} /\ array \in unknown(TraceOf(context[k].exprs))

(***************************************************************************)
(* bump_and_contract(targets, source, sink).  mapper is a function from     *)
(* the accesses of the sink to the scalars that replace them.               *)
(***************************************************************************)
xreplace(rhs, mapper) ==
    [m \in 1..Len(rhs) |-> IF rhs[m] \in DOMAIN mapper THEN mapper[rhs[m]] ELSE rhs[m]]

\* xreplace_indices(handle, shifting): x becomes x + delta in every indexed access
xreplace_indices(rhs, delta) ==
    [m \in 1..Len(rhs) |->
        IF rhs[m].f \in ScalarNames THEN rhs[m] ELSE Acc(rhs[m].f, rhs[m].o + delta)]

\* the name of the next scalar: 's%d' % len(mapper)
NewScalar(mapper) == Acc(ScalarName(Cardinality(DOMAIN mapper)), 0)

Put(mapper, key, val) ==
    [a \in DOMAIN mapper \cup {key} |-> IF a = key THEN val ELSE mapper[a]]

\* the inner loop over sink.tensors[v.function] for the write v of a target
RECURSIVE Contract(_, _, _, _)
Contract(v, reads, mapper, done) ==
    IF reads = <<>> THEN [mapper |-> mapper, processed |-> done]
    ELSE LET i == Head(reads)
             scalarized == NewScalar(mapper)
             mapper2 == Put(mapper, i, scalarized)
             handle == Eqn(scalarized,
                           xreplace_indices(xreplace(v.rhs, mapper2), i.o - v.lhs.o))
         IN  Contract(v, Tail(reads), mapper2, Append(done, handle))

\* the loop over source.trace.items()
RECURSIVE BumpSource(_, _, _, _, _)
BumpSource(tr, targets, sinkTrace, mapper, done) ==
    IF tr = <<>> THEN [mapper |-> mapper, processed |-> done]
    ELSE LET v == Head(tr) IN
         IF v.lhs.f \notin targets \/ tensors(sinkTrace, v.lhs.f) = <<>>
         THEN BumpSource(Tail(tr), targets, sinkTrace, mapper,
                         Append(done, Eqn(v.lhs, xreplace(v.rhs, mapper))))
         ELSE LET r == Contract(v, tensors(sinkTrace, v.lhs.f), mapper, done)
              IN  BumpSource(Tail(tr), targets, sinkTrace, r.mapper, r.processed)

\* the targets the loop over the source takes to its else branch (lines 164-177)
contracted(targets, source, sink) ==
    {f \in targets : /\ \E k \in 1..Len(TraceOf(source)) : TraceOf(source)[k].lhs.f = f
                      /\ tensors(TraceOf(sink), f) # <<>>}

\* the new source.exprs and sink.exprs
bump_and_contract(targets, source, sink) ==
    IF targets = {} THEN [source |-> source, sink |-> sink]
    ELSE LET st == TraceOf(source)
             kt == TraceOf(sink)
             r == BumpSource(st, targets, kt, <<>>, <<>>)
         IN  [source |-> r.processed,
              sink |-> [k \in 1..Len(kt) |-> Eqn(kt[k].lhs, xreplace(kt[k].rhs, r.mapper))]]

(***************************************************************************)
(* The clusters handed to groupby: one or two equations and a Schedule.     *)
(***************************************************************************)
ClusterExprs ==
    { <<Eqn(Acc("r", 0), <<Acc("b", 0)>>)>>,
      <<Eqn(Acc("q", 0), <<Acc("c", 0)>>)>>,
      <<Eqn(Acc("u", 0), <<Acc("r", 0)>>)>>,
      <<Eqn(Acc("u", 0), <<Acc("r", 1)>>)>>,
      <<Eqn(Acc("u", 0), <<Acc("r", 0), Acc("r", 1)>>)>>,
      <<Eqn(Acc("w", 0), <<Acc("r", -1)>>)>>,
      <<Eqn(Acc("v", 0), <<Acc("q", 1)>>)>>,
      <<Eqn(Acc("r", 0), <<Acc("b", 0)>>), Eqn(Acc("q", 0), <<Acc("c", 0)>>)>>,
      <<Eqn(Acc("r", 0), <<Acc("b", 0)>>), Eqn(Acc("d", 0), <<Acc("r", 0)>>)>> }

\* the writers that are also drawn over a second, wider iteration space
WideClusterExprs ==
    { <<Eqn(Acc("r", 0), <<Acc("b", 0)>>)>>,
      <<Eqn(Acc("r", 0), <<Acc("b", 0)>>), Eqn(Acc("q", 0), <<Acc("c", 0)>>)>> }

InputClusters ==
    [exprs : ClusterExprs, ispace : {<<Interval("x", 0, 0)>>}]
        \cup [exprs : WideClusterExprs,
              ispace : {<<Interval("x", 0, 0), Interval("y", 0, 0)>>}]

Clusters == 1..NumClusters

\* Schedule inherits Box.__eq__
SameSpace(k1, k2) ==
    Box_eq(SeqToSet(gClusters[k1].ispace), SeqToSet(gClusters[k2].ispace))

\* the locals of one turn of the inner loop, for candidate processed[gj] and c
candidate == processed[gj]
scope == Scope(gClusters[candidate].exprs \o gClusters[gc].exprs)
anti == d_anti_carried(scope)
flow == d_flow(scope)
funcs == {d.f : d \in anti}

\* candidate.ispace == c.ispace and all(is_local(i, ...) for i in funcs)
CanFuse ==
    /\ SameSpace(candidate, gc)
    /\ \A f \in funcs : is_local(f, candidate, gc, gClusters)

\* set(flow).intersection(processed.atomics[candidate]): a flow dependence
\* carried by a dimension that is atomic for the candidate
FlowAtomic == \E d \in flow : cause({d}) \cap atomics[candidate] # {}

Scanning == gc \in Clusters /\ gj >= 1

\* lines 34-48: bump_and_contract, squash, break; the outer loop goes on
GbFuse ==
    /\ Scanning
    /\ CanFuse
    /\ LET targets == funcs \cup {d.f : d \in {e \in d_flow_independent(scope) :
                                      is_local(e.f, candidate, gc, gClusters)}}
           bc == bump_and_contract(targets, gClusters[candidate].exprs,
                                   gClusters[gc].exprs)
       IN  /\ gClusters' = [gClusters EXCEPT
                               ![gc].exprs = bc.sink,
                               ![candidate].exprs = bc.source \o bc.sink]
           /\ last' = [c |-> gc, cand |-> candidate, fused |-> TRUE,
                       anti |-> funcs, targets |-> targets,
                       contracted |-> contracted(targets, gClusters[candidate].exprs,
                                                 gClusters[gc].exprs)]
    /\ home' = [home EXCEPT ![gc] = candidate]
    /\ gc' = gc + 1
    /\ gj' = Len(processed)
    /\ UNCHANGED <<gInput, processed, atomics>>
    /\ UNCHANGED <<varsAlg, varsClz, varsIet, varsBox, varsEq, varsFlt>>

\* lines 49-53 and 59-60: the anti-dependences end the search; c is appended
GbAntiBreak ==
    /\ Scanning
    /\ ~CanFuse
    /\ anti # {}
    /\ atomics' = [atomics EXCEPT ![gc] = @ \cup cause(anti)]
    /\ processed' = Append(processed, gc)
    /\ last' = [c |-> gc, cand |-> candidate, fused |-> FALSE,
                anti |-> funcs, targets |-> {}, contracted |-> {}]
    /\ home' = [home EXCEPT ![gc] = gc]
    /\ gc' = gc + 1
    /\ gj' = Len(processed')
    /\ UNCHANGED <<gInput, gClusters>>
    /\ UNCHANGED <<varsAlg, varsClz, varsIet, varsBox, varsEq, varsFlt>>

\* lines 54-57 and 59-60: the flow dependences end the search; c is appended
GbFlowBreak ==
    /\ Scanning
    /\ ~CanFuse
    /\ anti = {}
    /\ FlowAtomic
    /\ processed' = Append(processed, gc)
    /\ last' = [c |-> gc, cand |-> candidate, fused |-> FALSE,
                anti |-> {}, targets |-> {}, contracted |-> {}]
    /\ home' = [home EXCEPT ![gc] = gc]
    /\ gc' = gc + 1
    /\ gj' = Len(processed')
    /\ UNCHANGED <<gInput, gClusters, atomics>>
    /\ UNCHANGED <<varsAlg, varsClz, varsIet, varsBox, varsEq, varsFlt>>

\* no branch is taken: the inner loop moves to the next older candidate
GbSkip ==
    /\ Scanning
    /\ ~CanFuse
    /\ anti = {}
    /\ ~FlowAtomic
    /\ gj' = gj - 1
    /\ UNCHANGED <<gInput, gClusters, processed, atomics, gc, home, last>>
    /\ UNCHANGED <<varsAlg, varsClz, varsIet, varsBox, varsEq, varsFlt>>

\* lines 59-60: the inner loop ran out of candidates; c is appended
GbFallback ==
    /\ gc \in Clusters
    /\ gj = 0
    /\ processed' = Append(processed, gc)
    /\ last' = [c |-> gc, cand |-> 0, fused |-> FALSE, anti |-> {}, targets |-> {},
                contracted |-> {}]
    /\ home' = [home EXCEPT ![gc] = gc]
    /\ gc' = gc + 1
    /\ gj' = Len(processed')
    /\ UNCHANGED <<gInput, gClusters, atomics>>
    /\ UNCHANGED <<varsAlg, varsClz, varsIet, varsBox, varsEq, varsFlt>>

\* line 22-25: clusters = clusters.unfreeze(); processed = ClusterGroup()
InitGb ==
    /\ gInput \in [Clusters -> InputClusters]
    /\ gClusters = gInput
    /\ processed = <<>>
    /\ atomics = [k \in Clusters |-> {}]
    /\ gc = 1
    /\ gj = 0
    /\ home = [k \in Clusters |-> 0]
    /\ last = NoTurn
    /\ IdleAlg /\ IdleClz /\ IdleIet /\ IdleBox /\ IdleEq /\ IdleFlt

NextGb == GbFuse \/ GbAntiBreak \/ GbFlowBreak \/ GbSkip \/ GbFallback

SpecGroupby == InitGb /\ [][NextGb]_vars

(***************************************************************************)
(* Claims about groupby.                                                    *)
(***************************************************************************)
\* the place of an output cluster in processed
Pos(k) == CHOOSE n \in 1..Len(processed) : processed[n] = k

\* input cluster c reads a function that input cluster p writes
ReadsWhatWrites(p, c) ==
    {e.lhs.f : e \in SeqToSet(gInput[p].exprs)} \cap unknown(gInput[c].exprs) # {}

\* C1: for input clusters P before C with a flow dependence from P to C (C
\* reads what P writes), the output cluster holding the equations of C never
\* precedes the output cluster holding the equations of P.
C1_FlowOrderKept ==
    \A p \in Clusters, c \in Clusters :
        (p < c /\ home[p] # 0 /\ home[c] # 0 /\ ReadsWhatWrites(p, c))
            => Pos(home[c]) >= Pos(home[p])

\* C2: after a fusion that scalarizes array r through bump_and_contract, every
\* read of r, in the sink and in the remaining equations of the source, refers
\* to one of the new scalars: no equation of the fused cluster reads r.
C2_ScalarizedArrayGone ==
    last.fused =>
        \A r \in last.contracted : r \notin unknown(gClusters[last.cand].exprs)

\* some cluster other than source and sink reads r
ReadByThird(r, source, sink) ==
    \E k \in Clusters \ {source, sink} : r \in unknown(TraceOf(gClusters[k].exprs))

\* C3: an array read by a cluster other than source and sink is not local, is
\* not handed to bump_and_contract, and when it induces a carried
\* anti-dependence between source and sink the two are not fused.
C3_ThirdReaderBlocks ==
    /\ \A r \in Arrays, source \in Clusters, sink \in Clusters :
          (source # sink /\ ReadByThird(r, source, sink))
              => ~is_local(r, source, sink, gClusters)
    /\ last.fused =>
          \A r \in Arrays :
              ReadByThird(r, last.cand, last.c)
                  => (r \notin last.targets /\ r \notin last.anti)

\* a turn that did not fuse two clusters of equal space because the array of
\* their carried anti-dependence, written once in the source, is read by a third
C3_Witness ==
    /\ last.c # 0 /\ last.cand # 0 /\ ~last.fused
    /\ SameSpace(last.cand, last.c)
    /\ \E r \in last.anti :
          /\ is_local_nocontext(r, last.cand, last.c, gClusters)
          /\ ReadByThird(r, last.cand, last.c)

\* C4: the scalars bump_and_contract introduces are fresh: no two equations
\* of a cluster assign a scalar of the same name.
C4_FreshScalars ==
    \A k \in Clusters :
        LET ex == gClusters[k].exprs IN
        \A i \in 1..Len(ex), j \in 1..Len(ex) :
            (i < j /\ ex[i].lhs.f \in ScalarNames) => ex[i].lhs.f # ex[j].lhs.f


(***************************************************************************)
(* build_iet and compose_nodes (iet/utils.py:16-88, 182-204).  A cluster is *)
(* its ordered intervals, its atomic dimensions and, per equation of its   *)
(* trace, whether the left-hand side is an index computation.  A node keeps *)
(* one identity through the rebuilds of Transformer: grafting appends to   *)
(* the children of the reuse point.                                        *)
(***************************************************************************)
IetX == Interval("x", 0, 0)
IetY == Interval("y", 0, 0)
IetY1 == Interval("y", 0, 1)
IetSpaces == {<<>>, <<IetX>>, <<IetX, IetY>>, <<IetX, IetY1>>}
IetAtomics == {{}, {"x"}, {"y"}}
IetTraces == {<<FALSE>>, <<TRUE, FALSE>>}
\* the atomic dimensions of a cluster are dimensions of its iteration space
IetClusters ==
    {c \in [intervals : IetSpaces, atomics : IetAtomics, is_index : IetTraces] :
        c.atomics \subseteq {c.intervals[j].dim : j \in 1..Len(c.intervals)}}

NoInterval == NullInterval("none")
Expression(cl, pos, dt) ==
    [kind |-> "Expression", interval |-> NoInterval, body |-> <<>>,
     cl |-> cl, pos |-> pos, dtype |-> dt]
Iteration(body, i) ==
    [kind |-> "Iteration", interval |-> i, body |-> body,
     cl |-> 0, pos |-> 0, dtype |-> "none"]
List(body) ==
    [kind |-> "List", interval |-> NoInterval, body |-> body,
     cl |-> 0, pos |-> 0, dtype |-> "none"]

\* the lockstep walk without the test on the atomic dimensions
reuse_index_noatomics(intervals, sched, atom) ==
    LET n == Min(Len(intervals), Len(sched))
        stops == {i \in 0..n : i = n \/ intervals[i+1] # sched[i+1].interval}
    IN CHOOSE i \in stops : \A j \in stops : i <= j

\* build_iet, "Can I reuse any of the previously scheduled Iterations ?": the
\* walk of zip(intervals, schedule) ends with the shorter one or at the first
\* break
reuse_index(intervals, sched, atom) ==
    LET n == Min(Len(intervals), Len(sched))
        stops == {i \in 0..n : \/ i = n
                               \/ intervals[i+1] # sched[i+1].interval
                               \/ intervals[i+1].dim \in atom}
    IN CHOOSE i \in stops : \A j \in stops : i <= j

\* build_iet, "Build Expressions": the loop assigns dtype before each
\* Expression is built
RECURSIVE expr_dtypes(_, _)
expr_dtypes(flags, d) ==
    IF flags = <<>> THEN <<>>
    ELSE LET d1 == IF Head(flags) THEN "int32" ELSE d
         IN <<d1>> \o expr_dtypes(Tail(flags), d1)

\* the Expressions of cluster cl, given the dtype the loop starts with
build_exprs(cl, flags, d) ==
    LET dts == expr_dtypes(flags, d)
    IN [p \in 1..Len(flags) |-> Expression(cl, p, dts[p])]

\* compose_nodes(iters + [exprs], retrieve=True) on an arena of n nodes whose
\* last m nodes are the Expressions: the nodes it builds, innermost first
compose_nodes(n, m, needed) ==
    LET q == Len(needed)
        exprIds == [p \in 1..m |-> n - m + p]
    IN IF q = 0
       THEN IF m > 1 THEN <<List(exprIds)>> ELSE <<>>
       ELSE [t \in 1..q |->
                Iteration(IF t = 1 THEN exprIds ELSE <<n + t - 1>>, needed[q - t + 1])]

\* body and tree as compose_nodes returns them, by node identity
compose_body(n, m, needed) ==
    IF Len(needed) = 0 THEN (IF m > 1 THEN n + 1 ELSE n) ELSE n + Len(needed)
compose_tree(n, needed) == [j \in 1..Len(needed) |-> n + Len(needed) - j + 1]

cluster == iClusters[ik]
IetRunning == ik \in 1..Len(iClusters)

\* the locals of one pass over a cluster with a non-empty iteration space
iet_index == reuse_index(cluster.intervals, schedule, cluster.atomics)
iet_needed == SubSeq(cluster.intervals, iet_index + 1, Len(cluster.intervals))
iet_exprs == build_exprs(ik, cluster.is_index, dtype)
iet_arena == nodes \o iet_exprs
iet_composed == compose_nodes(Len(iet_arena), Len(iet_exprs), iet_needed)
iet_body == compose_body(Len(iet_arena), Len(iet_exprs), iet_needed)
iet_scheduling ==
    LET tree == compose_tree(Len(iet_arena), iet_needed)
    IN [j \in 1..Len(iet_needed) |-> [interval |-> iet_needed[j], node |-> tree[j]]]
ThisBuild(root) ==
    [cl |-> ik, index |-> iet_index, root |-> root, body |-> iet_body,
     nodes |-> Len(nodes), fragments |-> Len(iProcessed), schedule |-> schedule]

\* no Iteration is reused: the new tree is a new fragment of processed
IetNewTree ==
    /\ IetRunning /\ cluster.intervals # <<>>
    /\ iet_index = 0
    /\ nodes' = iet_arena \o iet_composed
    /\ iProcessed' = Append(iProcessed, iet_body)
    /\ schedule' = iet_scheduling
    /\ dtype' = iet_exprs[Len(iet_exprs)].dtype
    /\ built' = ThisBuild(0)
    /\ ik' = ik + 1
    /\ UNCHANGED iClusters
    /\ UNCHANGED <<varsAlg, varsClz, varsGb, varsBox, varsEq, varsFlt>>

\* root is the Iteration of the last reused interval: it is rebuilt with the
\* new body as one more child, and processed and schedule are refreshed
IetGraft ==
    /\ IetRunning /\ cluster.intervals # <<>>
    /\ iet_index > 0
    /\ LET root == schedule[iet_index].node
           arena == iet_arena \o iet_composed
       IN /\ nodes' = [arena EXCEPT ![root].body = Append(@, iet_body)]
          /\ built' = ThisBuild(root)
    /\ schedule' = SubSeq(schedule, 1, iet_index) \o iet_scheduling
    /\ dtype' = iet_exprs[Len(iet_exprs)].dtype
    /\ ik' = ik + 1
    /\ UNCHANGED <<iClusters, iProcessed>>
    /\ UNCHANGED <<varsAlg, varsClz, varsGb, varsBox, varsEq, varsFlt>>

\* "No Iterations are needed": the Expressions extend processed
IetFlat ==
    /\ IetRunning /\ cluster.intervals = <<>>
    /\ LET exprs == [p \in 1..Len(cluster.is_index) |-> Expression(ik, p, dtype)]
       IN /\ nodes' = nodes \o exprs
          /\ iProcessed' = iProcessed \o [p \in 1..Len(exprs) |-> Len(nodes) + p]
    /\ built' = [NoBuild EXCEPT !.cl = ik, !.nodes = Len(nodes),
                                !.fragments = Len(iProcessed), !.schedule = schedule]
    /\ ik' = ik + 1
    /\ UNCHANGED <<iClusters, schedule, dtype>>
    /\ UNCHANGED <<varsAlg, varsClz, varsGb, varsBox, varsEq, varsFlt>>

InitIet ==
    /\ iClusters \in [1..NumIetClusters -> IetClusters]
    /\ ik = 1
    /\ nodes = <<>>
    /\ iProcessed = <<>>
    /\ schedule = <<>>
    /\ dtype = "float32"
    /\ built = NoBuild
    /\ IdleAlg /\ IdleClz /\ IdleGb /\ IdleBox /\ IdleEq /\ IdleFlt

NextIet == IetNewTree \/ IetGraft \/ IetFlat

SpecIET == InitIet /\ [][NextIet]_vars

(***************************************************************************)
(* Claims about build_iet.                                                  *)
(***************************************************************************)
\* the statements below a node, in depth-first order
RECURSIVE Statements(_)
RECURSIVE StatementsOf(_)
Statements(id) ==
    IF nodes[id].kind = "Expression" THEN <<id>> ELSE StatementsOf(nodes[id].body)
StatementsOf(ids) ==
    IF ids = <<>> THEN <<>> ELSE Statements(Head(ids)) \o StatementsOf(Tail(ids))

\* the Iteration nodes built so far
Iterations == {id \in 1..Len(nodes) : nodes[id].kind = "Iteration"}

\* the first k intervals of the cluster equal those of the schedule the pass
\* started with, and none of their dimensions is atomic for the cluster
Reusable(c, sched, k) ==
    /\ k <= Len(c.intervals) /\ k <= Len(sched)
    /\ \A j \in 1..k : /\ c.intervals[j] = sched[j].interval
                       /\ c.intervals[j].dim \notin c.atomics

\* C7: when the first k >= 1 intervals of a cluster are reusable, and k is the
\* largest such number, the pass builds no Iteration for them: it builds one
\* Iteration per remaining interval, appends the new body as the last child of
\* the Iteration the schedule had for the k-th interval, adds no top-level
\* fragment, and keeps the Iterations of the schedule for the first k.
C7_LoopReuse ==
    built.cl # 0 =>
        LET c == iClusters[built.cl]
            sched == built.schedule
        IN \A k \in 1..Len(c.intervals) :
            (Reusable(c, sched, k) /\ ~Reusable(c, sched, k + 1)) =>
                LET root == sched[k].node
                    new == {id \in Iterations : id > built.nodes}
                IN /\ Cardinality(new) = Len(c.intervals) - k
                   /\ {nodes[id].interval : id \in new}
                          = {c.intervals[j] : j \in (k+1)..Len(c.intervals)}
                   /\ nodes[root].kind = "Iteration"
                   /\ nodes[root].interval = c.intervals[k]
                   /\ Len(nodes[root].body) > 1
                   /\ nodes[root].body[Len(nodes[root].body)] = built.body
                   /\ built.body > built.nodes
                   /\ Len(iProcessed) = built.fragments
                   /\ \A j \in 1..k : schedule[j] = sched[j]

\* a pass has reused the outer Iteration of the schedule and stopped at the
\* second interval, whose dimension is atomic for the cluster
C7_Witness ==
    /\ built.cl # 0 /\ built.index = 1 /\ built.root # 0
    /\ Len(iClusters[built.cl].intervals) = 2
    /\ Len(built.schedule) = 2
    /\ iClusters[built.cl].intervals[2] = built.schedule[2].interval
    /\ iClusters[built.cl].intervals[2].dim \in iClusters[built.cl].atomics

\* C8: read in depth-first order, the statements of the tree are in cluster
\* order: no statement of a later cluster precedes one of an earlier cluster.
C8_ClusterOrderKept ==
    LET s == StatementsOf(iProcessed)
    IN \A i \in 1..Len(s), j \in 1..Len(s) :
          i < j => nodes[s[i]].cl <= nodes[s[j]].cl

\* C9: a statement carries int32 exactly when its equation is an index
\* computation, and the default data type otherwise.
C9_IntegerTypeForIndex ==
    \A id \in 1..Len(nodes) :
        nodes[id].kind = "Expression" =>
            nodes[id].dtype =
                (IF iClusters[nodes[id].cl].is_index[nodes[id].pos]
                 THEN "int32" ELSE "float32")

(***************************************************************************)
(* Claims about the interval algebra.                                       *)
(***************************************************************************)
\* C10 as stated: for all intervals a and b, defined or null, over any
\* dimensions, a.intersection(b) == b.intersection(a).
C10_IntersectionCommutes ==
    algRes.op = "intersection" => algRes.ab = algRes.ba

\* C10 amended: for intervals a and b over the same dimension, defined or
\* null and with any integer bounds, a.intersection(b) == b.intersection(a).
C10_IntersectionCommutesSameDim ==
    (algRes.op = "intersection" /\ argA.dim = argB.dim) => algRes.ab = algRes.ba

\* two different overlapping intervals of one dimension have been intersected
C10_Witness ==
    /\ algRes.op = "intersection"
    /\ argA.dim = argB.dim /\ ~argA.null /\ ~argB.null
    /\ argA.lower # argB.lower /\ argA.upper # argB.upper
    /\ ~algRes.ab.null

\* e1 >= e2 for extents over the same symbolic size
ExtentGeq(e1, e2) == e1.size = e2.size /\ e1.plus >= e2.plus

\* C11: for defined intervals a and b, with any integer bounds, whose union
\* is an interval, the extent of a.union(b) is greater than or equal to the
\* extent of a and to the extent of b, and the union of overlapping intervals
\* spans from the least lower bound to the greatest upper bound.
C11_UnionExtent ==
    (algRes.op = "union" /\ ~argA.null /\ ~argB.null /\ ~algRes.ab.is_box) =>
        \A u \in algRes.ab.intervals :
            /\ ExtentGeq(extent(u), extent(argA))
            /\ ExtentGeq(extent(u), extent(argB))
            /\ u.lower = Min(argA.lower, argB.lower)
            /\ u.upper = Max(argA.upper, argB.upper)

(***************************************************************************)
(* Box.intersection and Box.subtract (domain.py:172-182) on drawn boxes.  A *)
(* box holds at most one interval per dimension, as the boxes Eq builds do. *)
(***************************************************************************)
MaxBoxArgs == 2
BoxIntervals(d) == {NullInterval(d), Interval(d, 0, 0), Interval(d, 0, 1)}
BoxChoices(d) == {{}} \cup {{i} : i \in BoxIntervals(d)}
DrawnBoxes == {bx \cup by : bx \in BoxChoices("x"), by \in BoxChoices("y")}

ApplyBoxIntersection ==
    /\ bRes.op = "none"
    /\ bRes' = [op |-> "intersection", box |-> Box_intersection(bSelf, bArgs)]
    /\ UNCHANGED <<bSelf, bArgs>>
    /\ UNCHANGED <<varsAlg, varsClz, varsGb, varsIet, varsEq, varsFlt>>

ApplyBoxSubtract ==
    /\ bRes.op = "none"
    /\ Len(bArgs) = 1
    /\ bRes' = [op |-> "subtract", box |-> Box_subtract(bSelf, bArgs[1])]
    /\ UNCHANGED <<bSelf, bArgs>>
    /\ UNCHANGED <<varsAlg, varsClz, varsGb, varsIet, varsEq, varsFlt>>

InitBox ==
    /\ bSelf \in DrawnBoxes
    /\ bArgs \in UNION {[1..n -> DrawnBoxes] : n \in 0..MaxBoxArgs}
    /\ bRes = NoBoxResult
    /\ IdleAlg /\ IdleClz /\ IdleGb /\ IdleIet /\ IdleEq /\ IdleFlt

NextBox == ApplyBoxIntersection \/ ApplyBoxSubtract

SpecBox == InitBox /\ [][NextBox]_vars

\* the dimensions the argument boxes have
ArgDims == UNION {BoxDims(bArgs[k]) : k \in 1..Len(bArgs)}

\* C12: the dimensions of b.intersection(*boxes) are the dimensions of b: a
\* dimension only an argument has is not in the result, and an interval of b
\* whose dimension no argument has is in the result unchanged.
C12_CallerDimsKept ==
    bRes.op = "intersection" =>
        /\ BoxDims(bRes.box) = BoxDims(bSelf)
        /\ \A i \in bSelf : i.dim \notin ArgDims => i \in bRes.box

\* an intersection where an argument has a dimension the caller lacks and the
\* caller has a dimension no argument has
C12_Witness ==
    /\ bRes.op = "intersection"
    /\ ArgDims \ BoxDims(bSelf) # {}
    /\ BoxDims(bSelf) \ ArgDims # {}

\* C13: for every dimension d of the calling box, the result of subtract holds
\* self[d].subtract(o[d]) when o has d, and self[d] unchanged when o has no
\* interval for d.
C13_SubtractPerDimension ==
    bRes.op = "subtract" =>
        \A i \in bSelf :
            IF i.dim \in BoxDims(bArgs[1])
            THEN \E j \in bArgs[1] : j.dim = i.dim /\ Interval_subtract(i, j) \in bRes.box
            ELSE i \in bRes.box

(***************************************************************************)
(* Eq.__new__, data space derivation (equation.py:40-61).  An equation is   *)
(* the set of index terms dim + offset of its accesses; "t" is a stepping   *)
(* dimension whose parent is "time".                                       *)
(***************************************************************************)
EqDims == {"time", "t", "x"}
EqOffsets == {-1, 0, 1}
is_Stepping(d) == d = "t"
is_Time(d) == d \in {"time", "t"}
parent(d) == IF d = "t" THEN "time" ELSE d

SetMin(S) == CHOOSE m \in S : \A n \in S : m <= n
SetMax(S) == CHOOSE m \in S : \A n \in S : m >= n

\* Stencil(expr): the offsets at which each dimension is accessed
Stencil(indices) ==
    [d \in {ix[1] : ix \in indices} |-> {ix[2] : ix \in {jx \in indices : jx[1] = d}}]

\* sorted(partial_order(constraints), key=lambda i: not i.is_Time): the
\* dimensions of the accesses, the time dimensions first
ordering(indices) ==
    LET found == DOMAIN Stencil(indices)
        canonical == <<"time", "t", "x">>
        present(d) == d \in found
    IN SelectSeq(SelectSeq(canonical, present), is_Time)
           \o SelectSeq(SelectSeq(canonical, present), LAMBDA d : ~is_Time(d))

\* no dimension is dropped
parents_none(ord) == {}

\* "Do not track parent dimensions": the parents of the stepping dimensions
parents(ord) == {parent(ord[k]) : k \in {j \in 1..Len(ord) : is_Stepping(ord[j])}}

\* the Box stored as expr.dspace
Eq_dspace(indices) ==
    LET stencil == Stencil(indices)
        ord == ordering(indices)
        kept == SelectSeq(ord, LAMBDA d : d \notin parents(ord))
    IN {Interval(kept[k], SetMin(stencil[kept[k]]), SetMax(stencil[kept[k]])) :
           k \in 1..Len(kept)}

NewEq ==
    /\ ~eDspace.done
    /\ eDspace' = [done |-> TRUE, box |-> Eq_dspace(eIndices)]
    /\ UNCHANGED eIndices
    /\ UNCHANGED <<varsAlg, varsClz, varsGb, varsIet, varsBox, varsFlt>>

InitEq ==
    /\ eIndices \in (SUBSET (EqDims \X EqOffsets)) \ {{}}
    /\ eDspace = [done |-> FALSE, box |-> {}]
    /\ IdleAlg /\ IdleClz /\ IdleGb /\ IdleIet /\ IdleBox /\ IdleFlt

NextEq == NewEq

SpecEq == InitEq /\ [][NextEq]_vars

\* the equation accesses an array along dimension d
Accessed(d) == \E ix \in eIndices : ix[1] = d

\* C14 as stated: for an equation that accesses an array along a stepping
\* dimension, the data space holds an interval keyed by the parent dimension
\* and no interval keyed by the stepping dimension.
C14_CollapsedToParent ==
    (eDspace.done /\ Accessed("t")) =>
        ("time" \in BoxDims(eDspace.box) /\ "t" \notin BoxDims(eDspace.box))

\* C14 amended: for an equation that accesses an array along a stepping
\* dimension, the data space holds an interval keyed by the stepping dimension,
\* from its least to its greatest offset, and no interval keyed by the parent
\* dimension, whether the parent is accessed or not.
C14_ParentNotTracked ==
    (eDspace.done /\ Accessed("t")) =>
        /\ "time" \notin BoxDims(eDspace.box)
        /\ \E i \in eDspace.box :
              /\ i.dim = "t" /\ ~i.null
              /\ \A ix \in eIndices : ix[1] = "t" => (i.lower <= ix[2] /\ ix[2] <= i.upper)
              /\ <<"t", i.lower>> \in eIndices /\ <<"t", i.upper>> \in eIndices

\* a data space derived from accesses along the stepping dimension, at two
\* offsets, and along its parent
C14_Witness ==
    /\ eDspace.done /\ Accessed("t") /\ Accessed("time")
    /\ \E i \in eDspace.box : i.dim = "t" /\ i.lower < i.upper

(***************************************************************************)
(* filter_iterations (iet/utils.py:128-166).  The tree is the sequence of   *)
(* the values key(i) takes on its items; an item is its position.          *)
(***************************************************************************)
MaxTree == 4
Trees == UNION {[1..n -> BOOLEAN] : n \in 0..MaxTree}
\* 'any', 'asap', or the default lambda: False
Stops == {"any", "asap", "never"}

\* hits = [i for i in tree if not key(i)]
hits(tree) == SelectSeq(tree, LAMBDA b : ~b)

\* stop(), as bound by the keyword
stop(kind, tree, filtered, off) ==
    CASE kind = "any" -> Len(filtered) > 0
      [] kind = "asap" -> Len(filtered) > 0 /\ Len(off) = Len(hits(tree))
      [] OTHER -> FALSE

\* the for loop from item k on
RECURSIVE filter_loop(_, _, _, _, _)
filter_loop(tree, k, filtered, off, kind) ==
    IF k > Len(tree) THEN filtered
    ELSE LET filtered1 == IF tree[k] THEN Append(filtered, k) ELSE filtered
             off1 == IF tree[k] THEN off ELSE Append(off, k)
         IN IF stop(kind, tree, filtered1, off1) THEN filtered1
            ELSE filter_loop(tree, k + 1, filtered1, off1, kind)

filter_iterations(tree, kind) == filter_loop(tree, 1, <<>>, <<>>, kind)

FilterIterations ==
    /\ ~fRes.done
    /\ fRes' = [done |-> TRUE, filtered |-> filter_iterations(fTree, fStop)]
    /\ UNCHANGED <<fTree, fStop>>
    /\ UNCHANGED <<varsAlg, varsClz, varsGb, varsIet, varsBox, varsEq>>

InitFlt ==
    /\ fTree \in Trees
    /\ fStop \in Stops
    /\ fRes = [done |-> FALSE, filtered |-> <<>>]
    /\ IdleAlg /\ IdleClz /\ IdleGb /\ IdleIet /\ IdleBox /\ IdleEq

NextFlt == FilterIterations

SpecFilter == InitFlt /\ [][NextFlt]_vars

\* the items of the first run of consecutive matches: those that match and
\* have no failing item between the first match and themselves
FirstRun(tree) ==
    {k \in 1..Len(tree) :
        /\ tree[k]
        /\ \A j \in 1..k : ~tree[j] => \A h \in 1..j : ~tree[h]}

\* C15: with stop='any' the result holds, in order, the matching items that
\* come before the first item that fails after a match was collected: every
\* item of the first run of consecutive matches.
C15_StopAnyReturnsRun ==
    (fRes.done /\ fStop = "any") =>
        /\ SeqToSet(fRes.filtered) = FirstRun(fTree)
        /\ \A a \in 1..Len(fRes.filtered), b \in 1..Len(fRes.filtered) :
              a < b => fRes.filtered[a] < fRes.filtered[b]

(***************************************************************************)
(* The fixpoint of the space-propagation loop.                              *)
(***************************************************************************)
\* C16: when the work-queue loop ends, intersecting the iteration space of any
\* equation with the iteration spaces of the members of its trace returns the
\* equation's iteration space unchanged.
C16_StableAgainstTrace ==
    (queue = <<>> /\ ispace # <<>>) =>
        \A e \in DOMAIN ispace : Box_eq(coerced_ispace(e), ispace[e])

\* the loop has ended, and an equation taken from the queue before a member of
\* its trace has ended with a space narrower than its negated data space
C16_Witness ==
    /\ queue = <<>> /\ ispace # <<>> /\ turns > NumEqs
    /\ \E e \in DOMAIN ispace :
          /\ ispace[e] # Box_negate(dspace[e])
          /\ \E f \in SeqToSet(trace(e)) : f > e /\ ispace[f] = Box_negate(dspace[f])

=============================================================================
